---- MODULE Spec2Model ----
(***************************************************************************)
(* A model of pkg/ftpmachine (the FTPServer search engine): GetMeta / Get,  *)
(* the concurrent search goroutines, the Connections channel semaphore,    *)
(* the PendingConnections counter, the cancelPending channel and the       *)
(* haltSearch channel.  One goroutine step of the Go code (one channel     *)
(* operation, one atomic operation, one transport call) is one action.     *)
(***************************************************************************)
EXTENDS Integers, Sequences, FiniteSets, TLC

\* ------------------------------------------------------------------ bounds
\* maxConnections is drawn from 1..MaxCap
MaxCap == 2
\* number of successive GetMeta/Get calls made on the same FTPServer
MaxCalls == 2
\* the hostnames handed to NewFTPMachine have at most MaxHostLen characters
MaxHostLen == 3
\* every file on the server has FileLen bytes
FileLen == 2
\* the long hostnames start with at most MaxLongLabels labels of 63 characters
MaxLongLabels == 3

\* ------------------------------------------------------------------ paths
\* A path string is modelled by its separator-free components and whether it
\* starts with the separator: "" is [abs |-> FALSE, segs |-> <<>>], "/" is
\* [abs |-> TRUE, segs |-> <<>>], "/a/c" is [abs |-> TRUE, segs |-> <<"a","c">>].
MkPath(a, s) == [abs |-> a, segs |-> s]
EmptyPath == MkPath(FALSE, <<>>)
RootPath == MkPath(TRUE, <<>>)
IsEmptyPath(p) == ~p.abs /\ p.segs = <<>>

\* filepath.Join(p, q): empty elements are ignored, the others are joined with
\* the separator and the result is cleaned (doubled separators collapse).
JoinPath(p, q) ==
    IF IsEmptyPath(p) THEN q
    ELSE IF IsEmptyPath(q) THEN p
    ELSE MkPath(p.abs, p.segs \o q.segs)

\* faulty variant: the path is searched as it was given
PathAsGiven(p) == p

\* search, line 237: path = filepath.Join("/", path)
NormalizePath(p) == JoinPath(RootPath, p)

\* ------------------------------------------------------------ remote server
Folder(n) == [Name |-> n, Type |-> "folder"]
File(n) == [Name |-> n, Type |-> "file"]

\* What the transport's List returns for each directory that exists on the
\* server, in listing order.
Tree ==
    (<<>> :> <<Folder("a"), File("r"), Folder("b")>>) @@
    (<<"a">> :> <<Folder("c"), File("d")>>) @@
    (<<"a", "c">> :> <<File("d"), File("deep")>>) @@
    (<<"b">> :> <<>>)

Dirs == DOMAIN Tree

\* the file names a caller asks for: "deep" is at depth 2 only, "d" is in two
\* directories, "r" is in the root directory, "zz" is nowhere
Filenames == {"deep", "d", "r", "zz"}

\* the paths a caller passes: "", "/a", "/b" (an empty directory) and "nope"
\* (which does not exist on the server)
ArgPaths ==
    {EmptyPath, MkPath(TRUE, <<"a">>), MkPath(TRUE, <<"b">>),
     MkPath(FALSE, <<"nope">>)}

\* the sets of directories whose List ends in a transport error
FailSets == {{}, {<<"b">>}}

\* -------------------------------------------------------------- hostnames
\* A hostname is the sequence of its characters.
Letters ==
    {"a", "b", "c", "d", "e", "f", "g", "h", "i", "j", "k", "l", "m", "n", "o",
     "p", "q", "r", "s", "t", "u", "v", "w", "x", "y", "z",
     "A", "B", "C", "D", "E", "F", "G", "H", "I", "J", "K", "L", "M", "N", "O",
     "P", "Q", "R", "S", "T", "U", "V", "W", "X", "Y", "Z"}

Digits == {"0", "1", "2", "3", "4", "5", "6", "7", "8", "9"}

\* isDomainName lines 391-393: last, nonNumeric and partlen before the loop;
\* ok is FALSE once the loop has returned false
ScanStart == [ok |-> TRUE, last |-> ".", nonNumeric |-> FALSE, partlen |-> 0]

\* isDomainName lines 396-425: one round of the loop, on the character c
DomainStep(st, c) ==
    IF ~st.ok THEN st
    ELSE IF c \in Letters \/ c = "_"
    THEN [st EXCEPT !.last = c, !.nonNumeric = TRUE, !.partlen = @ + 1]
    ELSE IF c \in Digits
    THEN [st EXCEPT !.last = c, !.partlen = @ + 1]
    ELSE IF c = "-"
    THEN IF st.last = "." THEN [st EXCEPT !.ok = FALSE]
         ELSE [st EXCEPT !.last = c, !.nonNumeric = TRUE, !.partlen = @ + 1]
    ELSE IF c = "."
    THEN IF st.last = "." \/ st.last = "-" THEN [st EXCEPT !.ok = FALSE]
         ELSE IF st.partlen > 63 \/ st.partlen = 0 THEN [st EXCEPT !.ok = FALSE]
         ELSE [st EXCEPT !.last = c, !.partlen = 0]
    ELSE [st EXCEPT !.ok = FALSE]

\* isDomainName lines 394-426: the rounds of the loop for the characters
\* lo..hi of s in their order, from the values st; the loop is left as soon
\* as a round returns false (the range is halved so that long names need no
\* deep nesting)
RECURSIVE DomainLoop(_, _, _, _)
DomainLoop(s, lo, hi, st) ==
    IF lo > hi THEN st
    ELSE IF lo = hi THEN DomainStep(st, s[lo])
    ELSE LET mid == (lo + hi) \div 2
             half == DomainLoop(s, lo, mid, st)
         IN  IF half.ok THEN DomainLoop(s, mid + 1, hi, half) ELSE half

\* faulty variant: the tests of the total length are left out
isDomainNameAnyLength(s) ==
    LET st == DomainLoop(s, 1, Len(s), ScanStart) IN
    IF Len(s) = 0 THEN FALSE
    ELSE IF ~st.ok \/ st.last = "-" \/ st.partlen > 63 THEN FALSE
    ELSE st.nonNumeric

\* isDomainName lines 377-433
isDomainName(s) ==
    LET l == Len(s)
        st == DomainLoop(s, 1, l, ScanStart)
    IN  IF l = 0 \/ l > 254 \/ (l = 254 /\ s[l] # ".") THEN FALSE
        ELSE IF ~st.ok THEN FALSE
        ELSE IF st.last = "-" \/ st.partlen > 63 THEN FALSE
        ELSE st.nonNumeric

\* line 65
connectionLimit == 65535

\* the characters hostnames are made of here: a letter, a digit, the hyphen,
\* the dot, the underscore and a character isDomainName has no case for
HostChars == {"a", "1", "-", ".", "_", "!"}

\* the hostnames handed to NewFTPMachine
HostArgs ==
    UNION {[1..n -> HostChars] : n \in 0..MaxHostLen}

\* the character c, n times
Rep(c, n) == [i \in 1..n |-> c]

\* labels around the limit of 63 characters, the empty label, and labels
\* with a hyphen at either end, of digits only, with a character that
\* isDomainName has no case for
HostLabels ==
    {Rep("a", n) : n \in {0, 1, 61, 62, 63, 64}} \cup
    {<<"-", "a">>, <<"a", "-">>, <<"1">>, <<"!">>}

\* k labels of 63 characters, each followed by its dot
LongPrefix(k) == [i \in 1..(64 * k) |-> IF i % 64 = 0 THEN "." ELSE "a"]

\* hostnames around the limit of 254 characters: up to MaxLongLabels labels
\* of 63 characters, then one or two of HostLabels, then a dot or not
LongHosts ==
    {LongPrefix(k) \o t \o d :
        k \in 0..MaxLongLabels,
        t \in HostLabels \cup
               {l1 \o <<".">> \o l2 : l1 \in HostLabels, l2 \in HostLabels},
        d \in {<<>>, <<".">>}}

\* the maxConnections handed to NewFTPMachine: both ends of the accepted
\* range and the values next to them
MaxConnArgs == {0 - 1, 0, 1, MaxCap, connectionLimit, connectionLimit + 1}

\* the arguments of a NewFTPMachine call
MkArgs(h, n) == [hostname |-> h, maxConnections |-> n]

\* no NewFTPMachine call was made
NoArgs == MkArgs(<<>>, 0)

\* the hostnames of the servers that calls are made on: "a.b", which
\* NewFTPMachine accepts, and "-a", which it rejects and which only a server
\* built as a struct literal can carry (cmd/planetpulse/main.go lines 14-22)
CallHostnames == {<<"a", ".", "b">>, <<"-", "a">>}

\* ftp.Dial resolves the host name first; a name that is neither a domain
\* name nor an IP literal (no IP literal is among CallHostnames) does not
\* resolve, so Dial fails
DialOutcomes(h) == IF isDomainName(h) THEN BOOLEAN ELSE {FALSE}

\* one search goroutine per directory path that can be searched
TaskIds == Dirs \cup {NormalizePath(p).segs : p \in ArgPaths}

VARIABLES
    newArgs,             \* the arguments of the NewFTPMachine call
    machine,             \* how the FTPServer came to be: "none" before
                         \* NewFTPMachine returns, "NewFTPMachine", "literal",
                         \* or the error NewFTPMachine returned
    Hostname,            \* server.Hostname
    filename,            \* argument of GetMeta/Get
    argPath,             \* argument of GetMeta/Get
    maxConnections,      \* argument of NewFTPMachine: cap(server.Connections)
    listFails,           \* the directories whose List ends in a transport error
    tasks,               \* the search goroutines of the current call
    wg,                  \* the WaitGroup counter of the current call
    Connections,         \* server.Connections: the buffered channel's content
    PendingConnections,  \* server.PendingConnections
    attemptedConn,       \* server.attemptedConn
    haltSearch,          \* TRUE once server.haltSearch is closed
    caller,              \* the goroutine that called GetMeta/Get
    calls,               \* number of calls started on this FTPServer
    direct,              \* a goroutine that calls GetFile with cancelable
                         \* = true on the same FTPServer
    proc                 \* "running", "exited" (log.Fatal) or the panic

vars == <<newArgs, machine, Hostname, filename, argPath, maxConnections, listFails, tasks, wg, Connections,
          PendingConnections, attemptedConn, haltSearch, caller, calls,
          direct, proc>>

inputs == <<newArgs, machine, Hostname, filename, argPath, maxConnections,
            listFails>>

\* path is the goroutine's variable path: the argument it was started with,
\* then (line 237) its normalized form.
\* late records that the goroutine began its connection attempt (line 324)
\* when a match had already been found and its snapshot (line 264) taken
NoTask == [pc |-> "none", connID |-> 0, cancelled |-> FALSE, session |-> FALSE,
           err |-> "", i |-> 0, pending |-> 0, late |-> FALSE,
           path |-> EmptyPath]

NoRet == [kind |-> "none", Name |-> "", Path |-> EmptyPath, err |-> "",
          data |-> <<>>]

\* meta is what GetMeta returned, ret what the call (GetMeta or Get) returned
\* file, dir and offset are the arguments of the GetFile call Get makes
\* (line 166); retrs counts the RetrFrom calls of the current call
IdleCaller == [pc |-> "idle", op |-> "", connID |-> 0, session |-> FALSE,
               meta |-> NoRet, ret |-> NoRet, file |-> "", dir |-> EmptyPath,
               offset |-> 0, retrs |-> 0]

\* the goroutine that calls GetFile(filename, path, true, offset) itself:
\* conn is nil before ftpSyncConnect returns, ret is what GetFile returns
IdleDirect == [pc |-> "idle", connID |-> 0, cancelled |-> FALSE,
               session |-> FALSE, ret |-> NoRet]

\* The FTPServer as NewFTPMachine returns it (lines 135-144), or as a struct
\* literal with its channels made builds it (cmd/planetpulse/main.go lines
\* 14-22); the literal is drawn for the hostname NewFTPMachine rejects.
\* A failing List is drawn only for directories at or below the search root:
\* no other directory is ever listed.
Init ==
    /\ Hostname \in CallHostnames
    /\ machine = IF isDomainName(Hostname) THEN "NewFTPMachine" ELSE "literal"
    /\ maxConnections \in 1..MaxCap
    /\ newArgs = IF isDomainName(Hostname)
                 THEN MkArgs(Hostname, maxConnections) ELSE NoArgs
    /\ filename \in Filenames
    /\ argPath \in ArgPaths
    /\ listFails \in
          {f \in FailSets :
              \A d \in f : LET r == NormalizePath(argPath).segs
                            IN  Len(r) <= Len(d) /\ SubSeq(d, 1, Len(r)) = r}
    /\ tasks = [t \in TaskIds |-> NoTask]
    /\ wg = 0
    /\ Connections = <<>>
    /\ PendingConnections = 0
    /\ attemptedConn = 0
    /\ haltSearch = FALSE
    /\ caller = IdleCaller
    /\ calls = 0
    /\ direct = IdleDirect
    /\ proc = "running"

Running == proc = "running"

\* The process has ended (log.Fatal is os.Exit(1), an unrecovered panic ends
\* the program): every goroutine is gone and the sockets are closed.
ProcessEnds(how) ==
    /\ proc' = how
    /\ tasks' = [t \in TaskIds |-> NoTask]
    /\ caller' = [caller EXCEPT !.pc = "dead", !.session = FALSE]
    /\ direct' = [direct EXCEPT !.pc = IF @ = "idle" THEN "idle" ELSE "dead",
                                !.session = FALSE]
    /\ UNCHANGED <<inputs, wg, Connections, PendingConnections, attemptedConn,
                   haltSearch, calls>>

\* ------------------------------------------------------------ GetMeta / Get
\* GetMeta lines 179-183: fresh result and sigError channels, a fresh
\* WaitGroup with counter 1, and the root search goroutine.  Get does nothing
\* before it calls GetMeta (line 161), so whether the call is GetMeta or Get
\* shows only when GetMeta returns (AfterMeta).  The goroutines of
\* an earlier call have all called wg.Done: the ones left are blocked on that
\* call's channels for ever and touch no state of the server.
CallStart ==
    /\ Running
    /\ caller.pc \in {"idle", "returned"}
    /\ calls < MaxCalls
    /\ calls' = calls + 1
    /\ wg' = 1
    /\ tasks' = [t \in TaskIds |->
                   IF t = NormalizePath(argPath).segs
                   THEN [NoTask EXCEPT !.pc = "check", !.path = argPath]
                   ELSE NoTask]
    /\ caller' = [IdleCaller EXCEPT !.pc = "wait"]
    /\ UNCHANGED <<inputs, direct, Connections, PendingConnections, attemptedConn,
                   haltSearch, proc>>


\* ------------------------------------------------------------------ search
Task(t) == tasks[t]
SetTask(t, r) == tasks' = [tasks EXCEPT ![t] = r]

\* the directory of the server that the transport is asked for when it is
\* given the goroutine's path
Listed(t) == Task(t).path.segs

\* the list a search goroutine ranges over, line 252: nil when its connection
\* request was cancelled (ftpList line 294), List's answer otherwise
ListOf(t) ==
    IF Task(t).cancelled \/ Listed(t) \notin Dirs THEN <<>> ELSE Tree[Listed(t)]

\* faulty variant: the halt check never sees the signal
NeverHalted == FALSE

\* search line 240: the receive from haltSearch is ready iff it is closed
Halted == haltSearch

\* search lines 237-245: the path is normalized; a closed haltSearch ends
\* the goroutine (wg.Done, return); otherwise the default branch goes on to
\* ftpList
HaltCheck(t) ==
    /\ Running
    /\ Task(t).pc = "check"
    /\ IF Halted
       THEN /\ SetTask(t, [Task(t) EXCEPT !.pc = "halted",
                                         !.path = NormalizePath(@)])
            /\ wg' = wg - 1
       ELSE /\ SetTask(t, [Task(t) EXCEPT !.pc = "connect",
                                         !.path = NormalizePath(@)])
            /\ wg' = wg
    /\ UNCHANGED <<inputs, direct, Connections, PendingConnections, attemptedConn,
                   haltSearch, caller, calls, proc>>

\* faulty variant: the connection is labelled with the next number but the
\* counter is not written back
SyncConnectNoCount(t) ==
    /\ Running
    /\ Task(t).pc = "connect"
    /\ SetTask(t, [Task(t) EXCEPT !.pc = "pend", !.connID = attemptedConn + 1])
    /\ UNCHANGED <<inputs, direct, wg, Connections, PendingConnections, attemptedConn,
                   haltSearch, caller, calls, proc>>

\* ftpSyncConnect lines 314-320: currID := atomic.AddInt32(&attemptedConn, 1)
SyncConnectBegin(t) ==
    /\ Running
    /\ Task(t).pc = "connect"
    /\ attemptedConn' = attemptedConn + 1
    /\ SetTask(t, [Task(t) EXCEPT !.pc = "pend", !.connID = attemptedConn + 1])
    /\ UNCHANGED <<inputs, direct, wg, Connections, PendingConnections, haltSearch,
                   caller, calls, proc>>

\* ftpSyncConnect line 324: atomic.AddInt32(&PendingConnections, 1)
PendingIncr(t) ==
    /\ Running
    /\ Task(t).pc = "pend"
    /\ PendingConnections' = PendingConnections + 1
    /\ SetTask(t, [Task(t) EXCEPT !.pc = "select",
                     !.late = \E s \in TaskIds :
                                 tasks[s].pc \in {"sweep", "match_done",
                                                  "send_result",
                                                  "parked_result",
                                                  "delivered"}])
    /\ UNCHANGED <<inputs, direct, wg, Connections, attemptedConn, haltSearch, caller,
                   calls, proc>>

\* the send on the buffered channel can proceed iff it is not full
HasRoom(ch) == Len(ch) < maxConnections

\* ftpSyncConnect line 331: case server.Connections <- connID
Acquire(t) ==
    /\ Running
    /\ Task(t).pc = "select"
    /\ HasRoom(Connections)
    /\ Connections' = Append(Connections, Task(t).connID)
    /\ SetTask(t, [Task(t) EXCEPT !.pc = "unpend_a"])
    /\ UNCHANGED <<inputs, direct, wg, PendingConnections, attemptedConn, haltSearch,
                   caller, calls, proc>>

\* search line 266 meeting ftpSyncConnect line 327: cancelPending is
\* unbuffered, so the send of the matching goroutine s and the receive of a
\* goroutine t waiting in the select happen together
CancelPending(s, t) ==
    /\ Running
    /\ s # t
    /\ Task(s).pc = "sweep"
    /\ Task(s).pending > 0
    /\ Task(t).pc = "select"
    /\ tasks' = [tasks EXCEPT ![s].pending = @ - 1, ![t].pc = "unpend_c"]
    /\ UNCHANGED <<inputs, direct, wg, Connections, PendingConnections, attemptedConn,
                   haltSearch, caller, calls, proc>>

\* faulty variant: the cancelled branch also hands back an error value
CancelledWithError ==
    [cancelled |-> TRUE, err |-> "cancelled"]

\* ftpSyncConnect lines 329-330: what the cancelled branch hands back, the
\* connection marked cancelled and a nil error
CancelledReturn ==
    [cancelled |-> TRUE, err |-> ""]

\* faulty variant: the deferred ftpDisconnect receives from Connections
\* whatever the cancelled flag says
UnpendCancelledReleases(t) ==
    /\ Running
    /\ Task(t).pc = "unpend_c"
    /\ Connections # <<>>
    /\ Connections' = Tail(Connections)
    /\ PendingConnections' = PendingConnections - 1
    /\ SetTask(t, [Task(t) EXCEPT !.cancelled = TRUE, !.i = 1, !.connID = 0,
                                  !.pc = "loop"])
    /\ UNCHANGED <<inputs, direct, wg, attemptedConn, haltSearch, caller, calls, proc>>

\* ftpSyncConnect lines 328-330, then ftpList lines 288-295: the deferred
\* ftpDisconnect of a cancelled connection only prints (line 371); ftpList
\* returns the error if there is one (line 290) and nil, nil otherwise
UnpendCancelled(t) ==
    /\ Running
    /\ Task(t).pc = "unpend_c"
    /\ PendingConnections' = PendingConnections - 1
    /\ SetTask(t, [Task(t) EXCEPT !.cancelled = CancelledReturn.cancelled,
                     !.err = CancelledReturn.err, !.i = 1, !.connID = 0,
                     !.pc = IF CancelledReturn.err # "" THEN "err_done"
                                                      ELSE "loop"])
    /\ UNCHANGED <<inputs, direct, wg, Connections, attemptedConn, haltSearch, caller,
                   calls, proc>>

\* faulty variant: the admitted branch leaves PendingConnections as it is
AdmittedNoDecrement(t) ==
    /\ Running
    /\ Task(t).pc = "unpend_a"
    /\ SetTask(t, [Task(t) EXCEPT !.pc = "dial"])
    /\ UNCHANGED <<inputs, direct, wg, Connections, PendingConnections, attemptedConn,
                   haltSearch, caller, calls, proc>>

\* ftpSyncConnect line 332
UnpendAdmitted(t) ==
    /\ Running
    /\ Task(t).pc = "unpend_a"
    /\ PendingConnections' = PendingConnections - 1
    /\ SetTask(t, [Task(t) EXCEPT !.pc = "dial"])
    /\ UNCHANGED <<inputs, direct, wg, Connections, attemptedConn, haltSearch, caller,
                   calls, proc>>

\* ftpConnect lines 347-362: Dial and Login; a failure of either is
\* log.Fatal, which ends the process
Dial(t) ==
    /\ Running
    /\ Task(t).pc = "dial"
    /\ \E ok \in DialOutcomes(Hostname) :
         IF ok
         THEN /\ SetTask(t, [Task(t) EXCEPT !.pc = "list", !.session = TRUE])
              /\ UNCHANGED <<inputs, direct, wg, Connections, PendingConnections,
                             attemptedConn, haltSearch, caller, calls, proc>>
         ELSE ProcessEnds("exited")

\* ftpList lines 299-307: ChangeDir fails for a path that is not on the server,
\* List fails with a transport error in the directories of listFails
ListOutcome(t) ==
    IF Listed(t) \notin Dirs THEN "dne"
    ELSE IF Listed(t) \in listFails THEN "list" ELSE ""

\* faulty variant: ftpList returns without the deferred ftpDisconnect
ListNoDisconnect(t) ==
    /\ Running
    /\ Task(t).pc = "list"
    /\ SetTask(t, [Task(t) EXCEPT !.err = ListOutcome(t), !.i = 1,
                     !.pc = IF ListOutcome(t) # "" THEN "err_done"
                                                   ELSE "loop"])
    /\ UNCHANGED <<inputs, direct, wg, Connections, PendingConnections, attemptedConn,
                   haltSearch, caller, calls, proc>>

\* ftpList lines 297-309: ChangeDir and List on the session; the deferred
\* ftpDisconnect (line 287) runs next
List(t) ==
    /\ Running
    /\ Task(t).pc = "list"
    /\ SetTask(t, [Task(t) EXCEPT !.pc = "release", !.err = ListOutcome(t)])
    /\ UNCHANGED <<inputs, direct, wg, Connections, PendingConnections, attemptedConn,
                   haltSearch, caller, calls, proc>>

\* faulty variant: ftpDisconnect forgets the receive from Connections
KeepPermit(ch) == ch

\* ftpDisconnect line 366: id := <-server.Connections
ReleasePermit(ch) == Tail(ch)

\* ftpDisconnect lines 365-366 (deferred by ftpList, line 288)
Release(t) ==
    /\ Running
    /\ Task(t).pc = "release"
    /\ Connections # <<>>
    /\ Connections' = ReleasePermit(Connections)
    /\ SetTask(t, [Task(t) EXCEPT !.pc = "quit"])
    /\ UNCHANGED <<inputs, direct, wg, PendingConnections, attemptedConn, haltSearch,
                   caller, calls, proc>>

\* faulty variant: search takes an empty list for an error
QuitEmptyIsError(t) ==
    /\ Running
    /\ Task(t).pc = "quit"
    /\ SetTask(t, [Task(t) EXCEPT !.session = FALSE, !.connID = 0, !.i = 1,
                     !.pc = IF Task(t).err # "" \/ ListOf(t) = <<>>
                            THEN "err_done" ELSE "loop"])
    /\ UNCHANGED <<inputs, direct, wg, Connections, PendingConnections,
                   attemptedConn, haltSearch, caller, calls, proc>>

\* ftpDisconnect line 367: connection.c.Quit(); then ftpList returns to search
\* (lines 245-250)
Quit(t) ==
    /\ Running
    /\ Task(t).pc = "quit"
    /\ SetTask(t, [Task(t) EXCEPT !.session = FALSE, !.connID = 0, !.i = 1,
                     !.pc = IF Task(t).err # "" THEN "err_done" ELSE "loop"])
    /\ UNCHANGED <<inputs, direct, wg, Connections, PendingConnections, attemptedConn,
                   haltSearch, caller, calls, proc>>

\* search line 247: wg.Done() before the error is sent
ErrDone(t) ==
    /\ Running
    /\ Task(t).pc = "err_done"
    /\ wg' = wg - 1
    /\ SetTask(t, [Task(t) EXCEPT !.pc = "send_err"])
    /\ UNCHANGED <<inputs, direct, Connections, PendingConnections, attemptedConn,
                   haltSearch, caller, calls, proc>>

\* search lines 248 and 270: the send on an unbuffered channel with no
\* receiver waiting parks the goroutine in the channel's send queue
Park(t) ==
    /\ Running
    /\ Task(t).pc \in {"send_err", "send_result"}
    /\ SetTask(t, [Task(t) EXCEPT
                     !.pc = IF @ = "send_err" THEN "parked_err"
                            ELSE "parked_result"])
    /\ UNCHANGED <<inputs, direct, wg, Connections, PendingConnections, attemptedConn,
                   haltSearch, caller, calls, proc>>

InLoop(t) == Task(t).pc = "loop" /\ Task(t).i <= Len(ListOf(t))
Entry(t) == ListOf(t)[Task(t).i]

\* faulty variant: the range goes on with the next entry after the file is
\* found
MatchGoesOn(t) ==
    /\ Running
    /\ InLoop(t)
    /\ Entry(t).Name = filename
    /\ SetTask(t, [Task(t) EXCEPT !.i = @ + 1])
    /\ UNCHANGED <<inputs, direct, wg, Connections, PendingConnections, attemptedConn,
                   haltSearch, caller, calls, proc>>

\* search lines 253-264: the entry is the file looked for; the goroutine
\* snapshots PendingConnections
Match(t) ==
    /\ Running
    /\ InLoop(t)
    /\ Entry(t).Name = filename
    /\ SetTask(t, [Task(t) EXCEPT !.pc = "sweep",
                                  !.pending = PendingConnections])
    /\ UNCHANGED <<inputs, direct, wg, Connections, PendingConnections, attemptedConn,
                   haltSearch, caller, calls, proc>>

\* faulty variant: the child goroutine is started without wg.Add(1)
SpawnNoAdd(t) ==
    /\ Running
    /\ InLoop(t)
    /\ Entry(t).Name # filename
    /\ Entry(t).Type = "folder"
    /\ LET subPath == JoinPath(Task(t).path, MkPath(FALSE, <<Entry(t).Name>>))
       IN tasks' = [tasks EXCEPT ![t].i = @ + 1,
                                 ![NormalizePath(subPath).segs] =
                                     [NoTask EXCEPT !.pc = "check",
                                                    !.path = subPath]]
    /\ UNCHANGED <<inputs, direct, wg, Connections, PendingConnections, attemptedConn,
                   haltSearch, caller, calls, proc>>

\* search lines 273-277: wg.Add(1); go server.search(filename, subPath, ...)
Spawn(t) ==
    /\ Running
    /\ InLoop(t)
    /\ Entry(t).Name # filename
    /\ Entry(t).Type = "folder"
    /\ LET subPath == JoinPath(Task(t).path, MkPath(FALSE, <<Entry(t).Name>>))
       IN tasks' = [tasks EXCEPT ![t].i = @ + 1,
                                 ![NormalizePath(subPath).segs] =
                                     [NoTask EXCEPT !.pc = "check",
                                                    !.path = subPath]]
    /\ wg' = wg + 1
    /\ UNCHANGED <<inputs, direct, Connections, PendingConnections, attemptedConn,
                   haltSearch, caller, calls, proc>>

\* search line 252: an entry that is neither the file nor a folder
Skip(t) ==
    /\ Running
    /\ InLoop(t)
    /\ Entry(t).Name # filename
    /\ Entry(t).Type # "folder"
    /\ SetTask(t, [Task(t) EXCEPT !.i = @ + 1])
    /\ UNCHANGED <<inputs, direct, wg, Connections, PendingConnections, attemptedConn,
                   haltSearch, caller, calls, proc>>

\* faulty variant: the goroutine returns at the end of the range without wg.Done()
LoopEndNoDone(t) ==
    /\ Running
    /\ Task(t).pc = "loop"
    /\ Task(t).i > Len(ListOf(t))
    /\ SetTask(t, [Task(t) EXCEPT !.pc = "done"])
    /\ UNCHANGED <<inputs, direct, wg, Connections, PendingConnections, attemptedConn,
                   haltSearch, caller, calls, proc>>

\* search lines 278-282: the range is exhausted, wg.Done(), return
LoopEnd(t) ==
    /\ Running
    /\ Task(t).pc = "loop"
    /\ Task(t).i > Len(ListOf(t))
    /\ wg' = wg - 1
    /\ SetTask(t, [Task(t) EXCEPT !.pc = "done"])
    /\ UNCHANGED <<inputs, direct, Connections, PendingConnections, attemptedConn,
                   haltSearch, caller, calls, proc>>

\* faulty variant: closing haltSearch a second time does nothing
CloseHaltIdempotent(t) ==
    /\ Running
    /\ Task(t).pc = "sweep"
    /\ Task(t).pending = 0
    /\ haltSearch' = TRUE
    /\ SetTask(t, [Task(t) EXCEPT !.pc = "match_done"])
    /\ UNCHANGED <<inputs, direct, wg, Connections, PendingConnections, attemptedConn,
                   caller, calls, proc>>

\* search line 268: close(server.haltSearch) once the sends of lines 265-267
\* are over; closing a closed channel panics
CloseHalt(t) ==
    /\ Running
    /\ Task(t).pc = "sweep"
    /\ Task(t).pending = 0
    /\ IF haltSearch
       THEN ProcessEnds("panic: close of closed channel")
       ELSE /\ haltSearch' = TRUE
            /\ SetTask(t, [Task(t) EXCEPT !.pc = "match_done"])
            /\ UNCHANGED <<inputs, direct, wg, Connections, PendingConnections,
                           attemptedConn, caller, calls, proc>>

\* search line 269: wg.Done() before the entry is sent
MatchDone(t) ==
    /\ Running
    /\ Task(t).pc = "match_done"
    /\ wg' = wg - 1
    /\ SetTask(t, [Task(t) EXCEPT !.pc = "send_result"])
    /\ UNCHANGED <<inputs, direct, Connections, PendingConnections, attemptedConn,
                   haltSearch, caller, calls, proc>>


\* ------------------------------------------------------- GetMeta, continued
SetCaller(r) == caller' = r

\* GetMeta line 186: wg.Wait() returns once the counter is zero
WaitReturn ==
    /\ Running
    /\ caller.pc = "wait"
    /\ wg = 0
    /\ SetCaller([caller EXCEPT !.pc = "select"])
    /\ UNCHANGED <<inputs, direct, tasks, wg, Connections, PendingConnections,
                   attemptedConn, haltSearch, calls, proc>>

\* what GetMeta hands back: to its caller, or to Get (line 161), which goes on
\* to GetFile when there is no error (lines 162-166)
\* faulty variant: the retrieval goes to the path the caller gave
AfterMetaArgPath(c, r) ==
    IF c.op = "Get" /\ r.kind = "entry"
    THEN [caller EXCEPT !.meta = r, !.op = c.op, !.pc = "gf_connect",
                        !.file = r.Name, !.dir = argPath,
                        !.offset = c.offset]
    ELSE [caller EXCEPT !.meta = r, !.op = c.op, !.pc = "returned", !.ret = r]

\* Get lines 162-166: GetMeta's error is returned as it is; otherwise
\* GetFile(ftpEntry.Name, ftpEntry.Path, false, offset) is called
AfterMeta(c, r) ==
    IF c.op = "Get" /\ r.kind = "entry"
    THEN [caller EXCEPT !.meta = r, !.op = c.op, !.pc = "gf_connect",
                        !.file = r.Name, !.dir = r.Path,
                        !.offset = c.offset]
    ELSE [caller EXCEPT !.meta = r, !.op = c.op, !.pc = "returned", !.ret = r]

Ops == {"GetMeta", "Get"}

\* the offsets a caller of Get passes
Offsets == 0..FileLen

\* the call that is being made: GetMeta(filename, path) or
\* Get(filename, path, offset)
CallArgs ==
    {[op |-> "GetMeta", offset |-> 0]} \cup
    {[op |-> "Get", offset |-> o] : o \in Offsets}

\* GetMeta lines 188-189: a goroutine is parked in result's send queue
SelectResult(t) ==
    /\ Running
    /\ caller.pc = "select"
    /\ Task(t).pc = "parked_result"
    /\ \E c \in CallArgs :
         SetCaller(AfterMeta(c, [NoRet EXCEPT !.kind = "entry",
                                               !.Name = Entry(t).Name,
                                               !.Path = Task(t).path]))
    /\ SetTask(t, [Task(t) EXCEPT !.pc = "delivered"])
    /\ UNCHANGED <<inputs, direct, wg, Connections, PendingConnections, attemptedConn,
                   haltSearch, calls, proc>>

\* GetMeta lines 190-191: a goroutine is parked in sigError's send queue
SelectError(t) ==
    /\ Running
    /\ caller.pc = "select"
    /\ Task(t).pc = "parked_err"
    /\ \E c \in CallArgs :
         SetCaller(AfterMeta(c, [NoRet EXCEPT !.kind = "error",
                                               !.err = Task(t).err]))
    /\ SetTask(t, [Task(t) EXCEPT !.pc = "done"])
    /\ UNCHANGED <<inputs, direct, wg, Connections, PendingConnections, attemptedConn,
                   haltSearch, calls, proc>>

\* GetMeta lines 192-193: neither channel has a sender parked
SelectDefault ==
    /\ Running
    /\ caller.pc = "select"
    /\ \A t \in TaskIds : Task(t).pc \notin {"parked_result", "parked_err"}
    /\ \E c \in CallArgs :
         SetCaller(AfterMeta(c, [NoRet EXCEPT !.kind = "notfound"]))
    /\ UNCHANGED <<inputs, direct, tasks, wg, Connections, PendingConnections,
                   attemptedConn, haltSearch, calls, proc>>

\* ----------------------------------------------- GetFile, as called by Get
\* ftpSyncConnect(false) lines 314-320
GFConnect ==
    /\ Running
    /\ caller.pc = "gf_connect"
    /\ attemptedConn' = attemptedConn + 1
    /\ SetCaller([caller EXCEPT !.pc = "gf_acquire",
                                !.connID = attemptedConn + 1])
    /\ UNCHANGED <<inputs, direct, tasks, wg, Connections, PendingConnections,
                   haltSearch, calls, proc>>

\* faulty variant: the acquisition of the retrieval gives up when the halt
\* signal of the search has fired
GFAcquireHalted ==
    /\ Running
    /\ caller.pc = "gf_acquire"
    /\ IF haltSearch
       THEN /\ SetCaller([caller EXCEPT !.pc = "returned", !.connID = 0,
                            !.ret = [NoRet EXCEPT !.kind = "error",
                                                  !.err = "cancelled"]])
            /\ UNCHANGED Connections
       ELSE /\ HasRoom(Connections)
            /\ Connections' = Append(Connections, caller.connID)
            /\ SetCaller([caller EXCEPT !.pc = "gf_dial"])
    /\ UNCHANGED <<inputs, direct, tasks, wg, PendingConnections, attemptedConn,
                   haltSearch, calls, proc>>

\* ftpSyncConnect line 341: server.Connections <- connID, not cancellable
GFAcquire ==
    /\ Running
    /\ caller.pc = "gf_acquire"
    /\ HasRoom(Connections)
    /\ Connections' = Append(Connections, caller.connID)
    /\ SetCaller([caller EXCEPT !.pc = "gf_dial"])
    /\ UNCHANGED <<inputs, direct, tasks, wg, PendingConnections, attemptedConn,
                   haltSearch, calls, proc>>

\* ftpSyncConnect line 342, ftpConnect lines 347-362
GFDial ==
    /\ Running
    /\ caller.pc = "gf_dial"
    /\ \E ok \in DialOutcomes(Hostname) :
         IF ok
         THEN /\ SetCaller([caller EXCEPT !.pc = "gf_retr", !.session = TRUE])
              /\ UNCHANGED <<inputs, direct, tasks, wg, Connections,
                             PendingConnections, attemptedConn, haltSearch,
                             calls, proc>>
         ELSE ProcessEnds("exited")

\* the file name is a file of the directory dir of the server
FileIn(dir, name) ==
    dir \in Dirs /\ \E i \in 1..Len(Tree[dir]) : Tree[dir][i] = File(name)

\* the bytes of the file name of directory dir: each byte tells its file and
\* its position
Content(dir, name) == [k \in 1..FileLen |-> <<dir, name, k>>]

\* GetFile line 221, conn.c.RetrFrom(filename, offset) after ChangeDir(path):
\* the stream of the file's bytes from the offset on
RetrFrom(dir, name, offset) ==
    SubSeq(Content(dir, name), offset + 1, FileLen)

\* GetFile line 226, ioutil.ReadAll(r) on a stream that breaks after k bytes
\* (k >= Len(stream): it does not break): the bytes read so far, whose
\* error GetFile drops (line 227)
ReadAll(stream, k) ==
    IF k >= Len(stream) THEN stream ELSE SubSeq(stream, 1, k)

\* what the transport can answer to GetFile: "dne" is a failed ChangeDir,
\* "retr" a failed RetrFrom, "" is both succeeding
GFOutcomes(dir, name) ==
    IF dir \notin Dirs THEN {"dne"}
    ELSE IF ~FileIn(dir, name) THEN {"dne", "retr"}
    ELSE {"", "dne", "retr"}

\* GetFile lines 209-227: ChangeDir, RetrFrom and ReadAll on the session
GFRetr ==
    /\ Running
    /\ caller.pc = "gf_retr"
    /\ \E e \in GFOutcomes(caller.dir.segs, caller.file), k \in 0..FileLen :
         SetCaller([caller EXCEPT !.pc = "gf_release",
                      !.retrs = IF e = "dne" THEN @ ELSE @ + 1,
                      !.ret = IF e = ""
                              THEN [NoRet EXCEPT !.kind = "data",
                                      !.data = ReadAll(RetrFrom(caller.dir.segs,
                                                 caller.file, caller.offset), k)]
                              ELSE [NoRet EXCEPT !.kind = "error", !.err = e]])
    /\ UNCHANGED <<inputs, direct, tasks, wg, Connections, PendingConnections,
                   attemptedConn, haltSearch, calls, proc>>

\* ftpDisconnect lines 365-366 (deferred by GetFile, line 203)
GFRelease ==
    /\ Running
    /\ caller.pc = "gf_release"
    /\ Connections # <<>>
    /\ Connections' = ReleasePermit(Connections)
    /\ SetCaller([caller EXCEPT !.pc = "gf_quit"])
    /\ UNCHANGED <<inputs, direct, tasks, wg, PendingConnections, attemptedConn,
                   haltSearch, calls, proc>>

\* ftpDisconnect line 367, then Get lines 167-170
GFQuit ==
    /\ Running
    /\ caller.pc = "gf_quit"
    /\ SetCaller([caller EXCEPT !.pc = "returned", !.session = FALSE,
                                !.connID = 0])
    /\ UNCHANGED <<inputs, direct, tasks, wg, Connections, PendingConnections,
                   attemptedConn, haltSearch, calls, proc>>

\* ------------------------- GetFile called with cancelable = true
\* SetDirect, and the steps of a goroutine that calls
\* GetFile(filename, path, true, 0) on the FTPServer while GetMeta or Get
\* may be running on it
SetDirect(r) == direct' = r

\* GetFile line 199: the call is made (once)
GetFileCall ==
    /\ Running
    /\ direct.pc = "idle"
    /\ SetDirect([direct EXCEPT !.pc = "connect"])
    /\ UNCHANGED <<inputs, tasks, wg, Connections, PendingConnections,
                   attemptedConn, haltSearch, caller, calls, proc>>

\* ftpSyncConnect(true) lines 314-320
GetFileSyncConnect ==
    /\ Running
    /\ direct.pc = "connect"
    /\ attemptedConn' = attemptedConn + 1
    /\ SetDirect([direct EXCEPT !.pc = "pend", !.connID = attemptedConn + 1])
    /\ UNCHANGED <<inputs, tasks, wg, Connections, PendingConnections,
                   haltSearch, caller, calls, proc>>

\* ftpSyncConnect line 324
GetFilePendingIncr ==
    /\ Running
    /\ direct.pc = "pend"
    /\ PendingConnections' = PendingConnections + 1
    /\ SetDirect([direct EXCEPT !.pc = "select"])
    /\ UNCHANGED <<inputs, tasks, wg, Connections, attemptedConn, haltSearch,
                   caller, calls, proc>>

\* ftpSyncConnect line 331
GetFileAcquire ==
    /\ Running
    /\ direct.pc = "select"
    /\ HasRoom(Connections)
    /\ Connections' = Append(Connections, direct.connID)
    /\ SetDirect([direct EXCEPT !.pc = "unpend_a"])
    /\ UNCHANGED <<inputs, tasks, wg, PendingConnections, attemptedConn,
                   haltSearch, caller, calls, proc>>

\* search line 266 meeting ftpSyncConnect line 327: the notice of the
\* matching goroutine s is taken by the GetFile call waiting in the select
GetFileCancelPending(s) ==
    /\ Running
    /\ Task(s).pc = "sweep"
    /\ Task(s).pending > 0
    /\ direct.pc = "select"
    /\ tasks' = [tasks EXCEPT ![s].pending = @ - 1]
    /\ SetDirect([direct EXCEPT !.pc = "unpend_c"])
    /\ UNCHANGED <<inputs, wg, Connections, PendingConnections, attemptedConn,
                   haltSearch, caller, calls, proc>>

\* ftpSyncConnect lines 328-330: connection.c stays nil; GetFile goes past
\* its error test (lines 204-206) with the nil error
GetFileUnpendCancelled ==
    /\ Running
    /\ direct.pc = "unpend_c"
    /\ PendingConnections' = PendingConnections - 1
    /\ SetDirect([direct EXCEPT !.pc = "chdir",
                                !.cancelled = CancelledReturn.cancelled])
    /\ UNCHANGED <<inputs, tasks, wg, Connections, attemptedConn, haltSearch,
                   caller, calls, proc>>

\* ftpSyncConnect line 332
GetFileUnpendAdmitted ==
    /\ Running
    /\ direct.pc = "unpend_a"
    /\ PendingConnections' = PendingConnections - 1
    /\ SetDirect([direct EXCEPT !.pc = "dial"])
    /\ UNCHANGED <<inputs, tasks, wg, Connections, attemptedConn, haltSearch,
                   caller, calls, proc>>

\* ftpSyncConnect line 333, ftpConnect lines 347-362
GetFileDial ==
    /\ Running
    /\ direct.pc = "dial"
    /\ \E ok \in DialOutcomes(Hostname) :
         IF ok
         THEN /\ SetDirect([direct EXCEPT !.pc = "chdir", !.session = TRUE])
              /\ UNCHANGED <<inputs, tasks, wg, Connections,
                             PendingConnections, attemptedConn, haltSearch,
                             caller, calls, proc>>
         ELSE ProcessEnds("exited")

\* GetFile lines 209-227: conn.c.ChangeDir(path) comes before the test of
\* conn.cancelled (line 216); on a cancelled connection conn.c is nil (line
\* 317) and the call dereferences it, which is a run-time panic.  Otherwise
\* ChangeDir, RetrFrom and ReadAll answer as for Get.
GetFileChangeDir ==
    /\ Running
    /\ direct.pc = "chdir"
    /\ IF direct.cancelled
       THEN ProcessEnds("panic: nil pointer dereference")
       ELSE /\ \E e \in GFOutcomes(argPath.segs, filename), k \in 0..FileLen :
                 SetDirect([direct EXCEPT !.pc = "release",
                     !.ret = IF e = ""
                             THEN [NoRet EXCEPT !.kind = "data",
                                     !.data = ReadAll(RetrFrom(argPath.segs,
                                                filename, 0), k)]
                             ELSE [NoRet EXCEPT !.kind = "error", !.err = e]])
            /\ UNCHANGED <<inputs, tasks, wg, Connections,
                           PendingConnections, attemptedConn, haltSearch,
                           caller, calls, proc>>

\* ftpDisconnect lines 365-366 (deferred by GetFile, line 203)
GetFileRelease ==
    /\ Running
    /\ direct.pc = "release"
    /\ Connections # <<>>
    /\ Connections' = ReleasePermit(Connections)
    /\ SetDirect([direct EXCEPT !.pc = "quit"])
    /\ UNCHANGED <<inputs, tasks, wg, PendingConnections, attemptedConn,
                   haltSearch, caller, calls, proc>>

\* ftpDisconnect line 367, then GetFile returns
GetFileQuit ==
    /\ Running
    /\ direct.pc = "quit"
    /\ SetDirect([direct EXCEPT !.pc = "returned", !.session = FALSE,
                                !.connID = 0])
    /\ UNCHANGED <<inputs, tasks, wg, Connections, PendingConnections,
                   attemptedConn, haltSearch, caller, calls, proc>>

\* ------------------------------------------------------------ specification
TaskStep(t) ==
    \/ HaltCheck(t)
    \/ SyncConnectBegin(t)
    \/ PendingIncr(t)
    \/ Acquire(t)
    \/ \E s \in TaskIds : CancelPending(s, t)
    \/ UnpendCancelled(t)
    \/ UnpendAdmitted(t)
    \/ Dial(t)
    \/ List(t)
    \/ Release(t)
    \/ Quit(t)
    \/ ErrDone(t)
    \/ Park(t)
    \/ Match(t)
    \/ Spawn(t)
    \/ Skip(t)
    \/ LoopEnd(t)
    \/ CloseHalt(t)
    \/ MatchDone(t)

CallerStep ==
    \/ WaitReturn
    \/ \E t \in TaskIds : SelectResult(t)
    \/ \E t \in TaskIds : SelectError(t)
    \/ SelectDefault
    \/ GFConnect
    \/ GFAcquire
    \/ GFDial
    \/ GFRetr
    \/ GFRelease
    \/ GFQuit

Next ==
    \/ CallStart
    \/ \E t \in TaskIds : TaskStep(t)
    \/ CallerStep

Spec == Init /\ [][Next]_vars

\* While some search goroutine can take a step, a search goroutine
\* eventually takes one, and the caller eventually takes a step it can take:
\* less than the Go scheduler gives (it runs every runnable goroutine).  The
\* caller is not obliged to start another call.
FairSpec ==
    /\ Spec
    /\ WF_vars(\E t \in TaskIds : TaskStep(t))
    /\ WF_vars(CallerStep)

\* GetMeta or Get together with a goroutine that calls GetFile with
\* cancelable = true on the same FTPServer
GetFileStep ==
    \/ GetFileCall
    \/ GetFileSyncConnect
    \/ GetFilePendingIncr
    \/ GetFileAcquire
    \/ \E s \in TaskIds : GetFileCancelPending(s)
    \/ GetFileUnpendCancelled
    \/ GetFileUnpendAdmitted
    \/ GetFileDial
    \/ GetFileChangeDir
    \/ GetFileRelease
    \/ GetFileQuit

CancelNext == Next \/ GetFileStep

\* as Init, for one hostname, capacity 1 and searches from the server root for
\* a file of the root directory or a file that is nowhere
InitCancel ==
    /\ Init
    /\ isDomainName(Hostname)
    /\ maxConnections = 1
    /\ filename \in {"r", "zz"}
    /\ argPath = EmptyPath

CancelSpec == InitCancel /\ [][CancelNext]_vars

\* ----------------------------------------------------------- NewFTPMachine
\* Before NewFTPMachine returns there is no FTPServer: Hostname is empty,
\* the capacity is 0 and the two counters carry -1 until line 135 sets them.
InitNew ==
    /\ newArgs \in {MkArgs(h, n) : h \in HostArgs, n \in MaxConnArgs}
    /\ machine = "none"
    /\ Hostname = <<>>
    /\ maxConnections = 0
    /\ filename = "r"
    /\ argPath = EmptyPath
    /\ listFails = {}
    /\ tasks = [t \in TaskIds |-> NoTask]
    /\ wg = 0
    /\ Connections = <<>>
    /\ PendingConnections = 0 - 1
    /\ attemptedConn = 0 - 1
    /\ haltSearch = FALSE
    /\ caller = IdleCaller
    /\ calls = 0
    /\ direct = IdleDirect
    /\ proc = "running"

\* as InitNew, over the short and the long hostnames, with one capacity
InitDomain ==
    /\ newArgs \in {MkArgs(h, 1) : h \in HostArgs \cup LongHosts}
    /\ machine = "none"
    /\ Hostname = <<>>
    /\ maxConnections = 0
    /\ filename = "r"
    /\ argPath = EmptyPath
    /\ listFails = {}
    /\ tasks = [t \in TaskIds |-> NoTask]
    /\ wg = 0
    /\ Connections = <<>>
    /\ PendingConnections = 0 - 1
    /\ attemptedConn = 0 - 1
    /\ haltSearch = FALSE
    /\ caller = IdleCaller
    /\ calls = 0
    /\ direct = IdleDirect
    /\ proc = "running"

\* faulty variant: the upper end of the range is rejected too
RejectsFromLimit(n) == n >= connectionLimit \/ n < 1

\* NewFTPMachine line 131
RejectsMaxConnections(n) == n > connectionLimit \/ n < 1

\* NewFTPMachine lines 123-152: the two validations, then the FTPServer with
\* its counters at 0, an empty Connections of capacity maxConnections and an
\* open haltSearch; no call of the transport
NewFTPMachine ==
    /\ machine = "none"
    /\ IF ~isDomainName(newArgs.hostname)
       THEN /\ machine' = "hostname is not valid"
            /\ UNCHANGED <<Hostname, maxConnections, Connections,
                           PendingConnections, attemptedConn, haltSearch>>
       ELSE IF RejectsMaxConnections(newArgs.maxConnections)
       THEN /\ machine' = "maxConnections must be between 1 and 65535"
            /\ UNCHANGED <<Hostname, maxConnections, Connections,
                           PendingConnections, attemptedConn, haltSearch>>
       ELSE /\ machine' = "NewFTPMachine"
            /\ Hostname' = newArgs.hostname
            /\ maxConnections' = newArgs.maxConnections
            /\ Connections' = <<>>
            /\ PendingConnections' = 0
            /\ attemptedConn' = 0
            /\ haltSearch' = FALSE
    /\ UNCHANGED <<newArgs, filename, argPath, listFails, tasks, wg, caller,
                   calls, direct, proc>>

\* the constructor alone, over the hostnames and capacities of HostArgs and
\* MaxConnArgs
NewSpec == InitNew /\ [][NewFTPMachine]_vars

\* the constructor's hostname validation, over the hostnames of HostArgs
\* and LongHosts
DomainSpec == InitDomain /\ [][NewFTPMachine]_vars


\* ------------------------------------------------------------------ claims
\* the sessions that are dialled and not yet closed by Quit
OpenSessions ==
    Cardinality({t \in TaskIds : Task(t).session})
        + (IF caller.session THEN 1 ELSE 0)

\* GetMeta has returned in the current call
MetaReturned == caller.meta.kind # "none"

\* the path the root search goroutine searches
SearchRoot == NormalizePath(argPath).segs

IsPrefix(p, q) == Len(p) <= Len(q) /\ SubSeq(q, 1, Len(p)) = p

\* the directories of the server at or below the search root
Under == {d \in Dirs : IsPrefix(SearchRoot, d)}

\* the directories at or below the search root that hold the file looked for
Holders == {d \in Under : \E i \in 1..Len(Tree[d]) : Tree[d][i].Name = filename}

\* no listing of the searched subtree fails
NoListingFails == SearchRoot \in Dirs /\ listFails \cap Under = {}

\* the goroutine has found the file in its listing
Matched(t) ==
    Task(t).pc \in {"sweep", "match_done", "send_result", "parked_result",
                    "delivered"}

\* C1: the number of open sessions never exceeds the capacity of the
\* Connections semaphore.
C1_SessionsWithinCapacity == OpenSessions <= maxConnections

\* C2: when the file is two directories below the search root and no listing
\* fails, what GetMeta returns is the entry of that file, with the directory
\* that holds it as Path.
C2_DeepFileReturned ==
    (/\ calls = 1
     /\ MetaReturned
     /\ filename = "deep"
     /\ argPath = EmptyPath
     /\ listFails = {})
    => /\ caller.meta.kind = "entry"
       /\ caller.meta.Name = "deep"
       /\ caller.meta.Path = MkPath(TRUE, <<"a", "c">>)

\* C3: GetMeta does not return not-found in a call in which a goroutine has
\* found the file and reached the delivery of the entry.
C3_NotFoundOnlyWithoutMatch ==
    (MetaReturned /\ caller.meta.kind = "notfound")
    => \A t \in TaskIds : Task(t).pc \notin {"send_result", "parked_result"}


\* C4: when the file is nowhere below the search root and no listing fails,
\* every call that has started comes to GetMeta returning the not-found error
\* (a failed Dial or Login ends the process instead).
C4_AbsentFileNotFound ==
    (caller.pc = "wait" /\ Holders = {} /\ NoListingFails)
    ~> (\/ MetaReturned /\ caller.meta.kind = "notfound"
        \/ proc = "exited")

C4_Witness ==
    /\ filename = "zz"
    /\ argPath = EmptyPath
    /\ listFails = {}
    /\ caller.pc = "returned"
    /\ caller.meta.kind = "notfound"
    /\ \A d \in Dirs : Task(d).pc = "done"

\* a goroutine or the caller can take a step
Progress == (\E t \in TaskIds : TaskStep(t)) \/ CallerStep

\* C5: a call in which a goroutine has found the file never deadlocks: while
\* the goroutine is in its cancellation sweep, some goroutine can take a step
\* (stated for a file held by one directory only, where haltSearch is closed
\* once).
C5_MatchNeverDeadlocks ==
    (/\ Running
     /\ Cardinality(Holders) = 1
     /\ \E s \in TaskIds : Task(s).pc = "sweep")
    => ENABLED Progress

\* C6: in a call whose GetMeta has returned, at most one goroutine has found
\* the file and at most one entry was delivered.
C6_AtMostOneDelivered ==
    MetaReturned
    => /\ Cardinality({t \in TaskIds : Matched(t)}) <= 1
       /\ Cardinality({t \in TaskIds : Task(t).pc = "delivered"}) <= 1

C6_Witness ==
    /\ filename = "d"
    /\ argPath = EmptyPath
    /\ Cardinality(Holders) = 2
    /\ MetaReturned
    /\ caller.meta.kind = "entry"

\* C7: haltSearch is never closed twice (a second close would panic).
C7_HaltNeverClosedTwice == proc # "panic: close of closed channel"

\* C8: a call made after a call that found a file (and closed haltSearch), for
\* a file that exists and with no listing failing, still lists the tree and
\* returns the entry of the file.
C8_LaterCallFindsFile ==
    (/\ calls >= 2
     /\ MetaReturned
     /\ Holders # {}
     /\ NoListingFails)
    => /\ Task(SearchRoot).pc # "halted"
       /\ caller.meta.kind = "entry"

\* the goroutines that hold a permit of Connections
PermitHolders ==
    {t \in TaskIds : Task(t).pc \in {"unpend_a", "dial", "list", "release"}}

CallerHoldsPermit == caller.pc \in {"gf_dial", "gf_retr", "gf_release"}

\* C9: the permits in Connections are exactly those of the goroutines between
\* their acquisition and their release, and none is left when the call has
\* returned.
C9_PermitsMatched ==
    Running
    => /\ Len(Connections) = Cardinality(PermitHolders)
                               + (IF CallerHoldsPermit THEN 1 ELSE 0)
       /\ caller.pc = "returned" => Connections = <<>>

C9_Witness ==
    /\ caller.pc = "returned"
    /\ caller.op = "Get"
    /\ caller.ret.kind = "error"
    /\ caller.ret.err = "retr"
    /\ attemptedConn >= 2

\* C10: a goroutine that makes its halt check once haltSearch is closed ends
\* there: it takes no connection ID, no permit and no session.
C10_HaltedTaskExits ==
    [][\A t \in TaskIds :
         (/\ haltSearch
          /\ Task(t).pc = "check"
          /\ tasks'[t].pc # "check"
          /\ proc' = "running")
         => /\ tasks'[t].pc = "halted"
            /\ tasks'[t].connID = 0
            /\ ~tasks'[t].session
            /\ attemptedConn' = attemptedConn
            /\ PendingConnections' = PendingConnections
            /\ Connections' = Connections]_vars

C10_Witness ==
    /\ calls = 1
    /\ haltSearch
    /\ \E t \in TaskIds : Task(t).pc = "halted"

C12_NonCancellableAcquires ==
    /\ [](caller.ret.err # "cancelled")
    /\ [][/\ (caller.pc = "gf_acquire" /\ caller' # caller) =>
               /\ caller'.pc = "gf_dial"
               /\ Len(Connections) < maxConnections
               /\ Connections' = Append(Connections, caller.connID)
               /\ PendingConnections' = PendingConnections
               /\ tasks' = tasks
          /\ (caller.pc = "gf_dial" /\ caller' # caller) =>
               \/ caller'.pc = "gf_retr" /\ caller'.session
               \/ proc' = "exited"]_vars

C12_Witness ==
    /\ caller.pc = "gf_retr"
    /\ caller.session
    /\ haltSearch
    /\ Connections = <<caller.connID>>


\* ---------------------------------------------------------------------
\* the listing of goroutine t has failed with the error e
Failed(t, e) == Task(t).err = e

\* C13: when the listing of some goroutine fails with a transport error and
\* the file is nowhere below the search root, GetMeta returns that error and
\* not the not-found error.
C13_ListingErrorReturned ==
    (MetaReturned /\ Holders = {} /\ \E t \in TaskIds : Failed(t, "list"))
    => /\ caller.meta.kind = "error"
       /\ caller.meta.err = "list"


\* ---------------------------------------------------------------------
\* C14: when the listing of one goroutine fails and another goroutine finds
\* the file, GetMeta returns the matched entry, not the error of the failed
\* listing.
C14_SiblingMatchWins ==
    (/\ MetaReturned
     /\ \E t \in TaskIds : Failed(t, "list")
     /\ \E t \in TaskIds : Matched(t))
    => caller.meta.kind # "error"

\* ---------------------------------------------------------------------
\* the goroutine is still running or blocked
Alive(t) == Task(t).pc \notin {"none", "halted", "done", "delivered"}

\* C15: when GetMeta has returned, no search goroutine of the call is still
\* running or blocked on the result, error or cancellation channel.
C15_NoTaskLeftBehind ==
    MetaReturned => \A t \in TaskIds : ~Alive(t)


\* ---------------------------------------------------------------------
\* C16: a failed Dial or Login never ends the process (the failure comes
\* back to the caller of GetMeta or Get as an error value).
C16_ConnectFailureReturned ==
    isDomainName(Hostname) => proc # "exited" /\ caller.pc # "dead"

\* ---------------------------------------------------------------------
\* C17: GetMeta on a search root that does not exist returns the error
\* "does not exist on the server"; on a root that exists and is empty it
\* returns not-found; neither is returned for the other.
C17_MissingRootDistinct ==
    MetaReturned =>
        /\ SearchRoot \notin Dirs =>
              caller.meta.kind = "error" /\ caller.meta.err = "dne"
        /\ (SearchRoot \in Dirs \ listFails /\ Tree[SearchRoot] = <<>>) =>
              caller.meta.kind = "notfound"


\* ---------------------------------------------------------------------
\* C18: when a queued goroutine has been released by a cancellation notice
\* while another goroutine has found the file (no listing failing), GetMeta
\* returns the matched entry, and the released goroutine delivers no error.
C18_CancelledNeverFails ==
    (/\ MetaReturned
     /\ NoListingFails
     /\ \E t \in TaskIds : Task(t).cancelled
     /\ \E t \in TaskIds : Matched(t))
    => /\ caller.meta.kind = "entry"
       /\ \A t \in TaskIds : Task(t).cancelled => Task(t).err = ""


\* ---------------------------------------------------------------------
\* NewFTPMachine has returned an error and no FTPMachine
ReturnedError == machine \notin {"none", "NewFTPMachine", "literal"}

\* C19: NewFTPMachine returns an error and no FTPMachine, with no connection
\* attempt, whenever the hostname is not a domain name or maxConnections is
\* outside 1..65535; for every other input it returns a server whose
\* Connections is empty with capacity maxConnections and whose pending and
\* attempt counters are 0.
C19_ConstructorValidates ==
    (machine # "none" /\ machine # "literal") =>
        IF \/ ~isDomainName(newArgs.hostname)
           \/ newArgs.maxConnections < 1
           \/ newArgs.maxConnections > 65535
        THEN /\ ReturnedError
             /\ Hostname = <<>>
             /\ maxConnections = 0
             /\ attemptedConn = 0 - 1
             /\ OpenSessions = 0
             /\ \A t \in TaskIds : Task(t).pc = "none"
        ELSE /\ machine = "NewFTPMachine"
             /\ Hostname = newArgs.hostname
             /\ maxConnections = newArgs.maxConnections
             /\ Connections = <<>>
             /\ PendingConnections = 0
             /\ attemptedConn = 0
             /\ ~haltSearch

C19_Witness ==
    /\ ReturnedError
    /\ isDomainName(newArgs.hostname)
    /\ newArgs.maxConnections = 65536

\* ---------------------------------------------------------------------
\* C20: a Get on a server whose hostname is not a domain name fails with a
\* validation error before any transport call: no Dial is made (so none
\* fails and ends the process) and what comes back is the validation error.
C20_InvalidHostFailsFast ==
    ~isDomainName(Hostname) =>
        /\ proc = "running"
        /\ \A t \in TaskIds : ~Task(t).session
        /\ MetaReturned =>
              caller.meta.kind = "error" /\ caller.meta.err = "validation"


\* ---------------------------------------------------------------------
\* C21: when GetMeta fails, Get returns GetMeta's error and retrieves
\* nothing (no acquisition, no session, no RetrFrom); when GetMeta succeeds,
\* Get calls GetFile with the entry's Name and Path and RetrFrom is called
\* at most once, exactly once unless ChangeDir failed.
C21_GetFollowsMeta ==
    (caller.op = "Get" /\ MetaReturned) =>
        IF caller.meta.kind # "entry"
        THEN /\ caller.pc = "returned"
             /\ caller.ret = caller.meta
             /\ caller.retrs = 0
             /\ caller.connID = 0
             /\ ~caller.session
             /\ ~CallerHoldsPermit
        ELSE /\ caller.file = caller.meta.Name
             /\ caller.dir = caller.meta.Path
             /\ caller.retrs <= 1
             /\ caller.pc \in {"gf_connect", "gf_acquire", "gf_dial", "gf_retr"}
                  => caller.retrs = 0
             /\ (caller.pc = "returned" /\ caller.ret.err # "dne")
                  => caller.retrs = 1

C21_Witness ==
    /\ caller.op = "Get"
    /\ caller.pc = "returned"
    /\ caller.ret.kind = "data"
    /\ argPath = EmptyPath
    /\ caller.dir = MkPath(TRUE, <<"a", "c">>)
    /\ caller.file = "deep"


\* ---------------------------------------------------------------------
\* C22: the bytes Get returns for a non-zero offset are exactly the bytes of
\* the file found, from that offset to the end of the file.
C22_OffsetSuffix ==
    (caller.op = "Get" /\ caller.ret.kind = "data" /\ caller.offset > 0) =>
        caller.ret.data =
            SubSeq(Content(caller.meta.Path.segs, caller.meta.Name),
                   caller.offset + 1, FileLen)


\* ---------------------------------------------------------------------
\* C23: isDomainName accepts a hostname only if it is not empty, it has at
\* most 254 characters (254 only with a dot at the end), each of its labels
\* is non-empty and has at most 63 characters, no label starts or ends with
\* a hyphen, every character is a letter, a digit, "_", "-" or ".", and
\* some character is not numeric.  (The labels of a name are the runs of
\* characters between its dots; a dot at the very end closes the last label
\* and starts none.)
C23_DomainNameRules ==
    LET s == newArgs.hostname
        AtMost254 == Len(s) <= 254 /\ (Len(s) = 254 => s[254] = ".")
        LabelsNonEmpty ==
            /\ s[1] # "."
            /\ \A i \in 1..(Len(s) - 1) : ~(s[i] = "." /\ s[i + 1] = ".")
        LabelsAtMost63 ==
            \A i \in 1..(Len(s) - 63) : \E j \in i..(i + 63) : s[j] = "."
        NoHyphenAtLabelEnds ==
            /\ s[1] # "-"
            /\ s[Len(s)] # "-"
            /\ \A i \in 1..(Len(s) - 1) :
                  /\ ~(s[i] = "." /\ s[i + 1] = "-")
                  /\ ~(s[i] = "-" /\ s[i + 1] = ".")
        OnlyHostCharacters ==
            \A i \in 1..Len(s) :
                s[i] \in Letters \cup Digits \cup {"_", "-", "."}
        SomeNonNumeric ==
            \E i \in 1..Len(s) : s[i] \in Letters \cup {"_", "-"}
    IN  isDomainName(s) =>
            /\ s # <<>>
            /\ AtMost254
            /\ LabelsNonEmpty
            /\ LabelsAtMost63
            /\ NoHyphenAtLabelEnds
            /\ OnlyHostCharacters
            /\ SomeNonNumeric

C23_Witness ==
    /\ machine = "NewFTPMachine"
    /\ Len(Hostname) = 254
    /\ \E i \in 1..191 : \A j \in i..(i + 62) : Hostname[j] # "."


\* ---------------------------------------------------------------------
\* the goroutine has been started (and counted) and has not called wg.Done()
BeforeDone(t) ==
    Task(t).pc \notin {"none", "halted", "send_err", "parked_err", "done",
                       "send_result", "parked_result", "delivered"}

\* C24: the WaitGroup counter is the number of search goroutines that have
\* been started and have not called Done (so it is never negative, and not
\* zero while a goroutine is before its Done, in its listing or anywhere
\* else); GetMeta's wait is over only when it is 0.
C24_CounterCountsTasks ==
    Running =>
        /\ wg = Cardinality({t \in TaskIds : BeforeDone(t)})
        /\ wg >= 0
        /\ caller.pc \notin {"idle", "wait", "dead"} => wg = 0

C24_Witness ==
    /\ wg = 2
    /\ \E t \in TaskIds : Task(t).pc = "halted"
    /\ \E t \in TaskIds : Task(t).pc = "match_done"
    /\ \E t \in TaskIds : Task(t).pc = "list"

\* ---------------------------------------------------------------------
\* C25: the counter does not reach zero before the match has been
\* delivered: while a goroutine that found the file has not handed its
\* entry to GetMeta, the counter is positive.
C25_MatchHeldUntilDelivered ==
    \A t \in TaskIds :
        (Matched(t) /\ Task(t).pc # "delivered") => wg > 0


\* ---------------------------------------------------------------------
\* C26: a goroutine that is where it spawns children, sends cancellation
\* notices, closes haltSearch or sends on result or sigError holds no permit
\* and has no session: ftpList has taken its permit out of Connections and
\* closed its session, and the permits in Connections are those of the other
\* goroutines.
C26_NoPermitAcrossFanOut ==
    \A t \in TaskIds :
        Task(t).pc \in {"loop", "sweep", "match_done", "send_result",
                        "parked_result", "err_done", "send_err", "parked_err"}
        => /\ ~Task(t).session
           /\ Task(t).connID = 0
           /\ Len(Connections) =
                  Cardinality(PermitHolders \ {t})
                  + (IF CallerHoldsPermit THEN 1 ELSE 0)

C26_Witness ==
    \E t \in TaskIds :
        /\ Task(t).pc = "sweep"
        /\ Task(t).pending > 0
        /\ Len(Connections) = maxConnections
        /\ maxConnections > 1


\* ---------------------------------------------------------------------
\* C27: no cancellation notice is sent while haltSearch is still open (the
\* matching goroutine closes haltSearch first, then sends the notices, then
\* delivers the entry): a goroutine that has taken a notice finds
\* haltSearch closed.
C27_HaltBeforeNotices ==
    \A t \in TaskIds : Task(t).pc = "unpend_c" => haltSearch

\* ---------------------------------------------------------------------
\* C28: the sweep cancels exactly the attempts that were pending: the
\* notices a matching goroutine still has to send are never more than the
\* attempts still recorded in PendingConnections (every notice finds a
\* waiting goroutine to take it).
C28_SweepExact ==
    \A t \in TaskIds :
        Task(t).pc = "sweep" => Task(t).pending <= PendingConnections


\* ---------------------------------------------------------------------
\* C29: a goroutine that began its connection attempt after the snapshot of
\* a match exits after its listing: it starts no goroutine for a
\* subdirectory, and it does not get to a match of its own (no close of
\* haltSearch, no entry delivered).
C29_LateTaskOnlyLists ==
    \A t \in TaskIds :
        Task(t).late =>
            /\ ~Matched(t)
            /\ \A c \in TaskIds :
                  (Len(c) = Len(t) + 1 /\ IsPrefix(t, c)) => Task(c).pc = "none"


\* ---------------------------------------------------------------------
\* C30: when the file is directly in the directory given as path, GetMeta
\* lists that directory only: no goroutine of a subdirectory opens a session
\* or gets to a listing.
C30_DirectHitListsOnce ==
    (calls = 1 /\ FileIn(SearchRoot, filename)) =>
        \A t \in TaskIds \ {SearchRoot} :
            ~Task(t).session /\ Task(t).pc # "list"


\* ---------------------------------------------------------------------
\* C31: a goroutine stops at the first entry of its listing that is the file
\* looked for: its range never moves past that entry, a goroutine that has
\* matched stands on an entry with the file's name, and no goroutine is
\* started for a folder that comes after that entry in the listing.
C31_MatchEndsRange ==
    \A t \in TaskIds :
        /\ Matched(t) =>
               /\ Task(t).i \in 1..Len(ListOf(t))
               /\ Entry(t).Name = filename
        /\ \A j \in 1..Len(ListOf(t)) :
               (Task(t).pc # "none" /\ ListOf(t)[j].Name = filename) =>
                   /\ Task(t).i <= j
                   /\ \A k \in (j + 1)..Len(ListOf(t)) :
                          ListOf(t)[k].Type = "folder" =>
                              Task(t \o <<ListOf(t)[k].Name>>).pc = "none"

C31_Witness ==
    /\ filename = "r"
    /\ Task(<<>>).pc = "delivered"
    /\ Task(<<"a">>).pc # "none"
    /\ Task(<<"b">>).pc = "none"
    /\ Tree[<<>>][3] = Folder("b")


\* ---------------------------------------------------------------------
\* the goroutine is in a cancellable ftpSyncConnect between the increment of
\* PendingConnections (line 324) and its decrement (line 328 or 332)
Pending(t) == Task(t).pc \in {"select", "unpend_a", "unpend_c"}

Attempts ==
    {t \in TaskIds : Task(t).connID # 0}
        \cup (IF caller.connID # 0 THEN {"caller"} ELSE {})

\* the connID of an attempt
ConnIDOf(a) == IF a = "caller" THEN caller.connID ELSE Task(a).connID

\* a goroutine enters ftpSyncConnect in this step
EntersSyncConnect ==
    \/ \E t \in TaskIds : tasks[t].pc = "connect" /\ tasks'[t].pc = "pend"
    \/ caller.pc = "gf_connect" /\ caller'.pc = "gf_acquire"

\* C33: attemptedConn never decreases; it goes up by exactly one in every
\* step in which a goroutine enters ftpSyncConnect (cancellable or not,
\* later admitted or cancelled) and in no other step; the connID given in
\* that step is the new value of the counter, so that no two attempts, not
\* even concurrent ones, have the same connID, and the numbers in Connections
\* are all different.
C33_AttemptIdsUnique ==
    /\ [](/\ \A a, b \in Attempts : a # b => ConnIDOf(a) # ConnIDOf(b)
          /\ \A a \in Attempts : ConnIDOf(a) \in 1..attemptedConn
          /\ \A i, j \in 1..Len(Connections) :
                 i # j => Connections[i] # Connections[j])
    /\ [][/\ attemptedConn' =
                 attemptedConn + (IF EntersSyncConnect THEN 1 ELSE 0)
          /\ \A t \in TaskIds :
                 (tasks'[t].connID # tasks[t].connID /\ tasks'[t].connID # 0)
                     => tasks'[t].connID = attemptedConn + 1
          /\ (caller'.connID # caller.connID /\ caller'.connID # 0)
                     => caller'.connID = attemptedConn + 1]_vars

C33_Witness ==
    /\ \E t \in TaskIds : Task(t).pc = "unpend_c" /\ Task(t).connID # 0
    /\ \E t \in TaskIds : Task(t).pc = "dial" /\ Task(t).connID # 0
    /\ Cardinality(Attempts) >= 2
    /\ attemptedConn >= 3


\* ---------------------------------------------------------------------
\* C34: the step in which a cancelled connection is handed back and
\* disconnected leaves Connections and every session as they are; the
\* ftpDisconnect of a connection that is not cancelled takes exactly one
\* permit out of Connections, and only connections that are not cancelled
\* get there; so the permits of the other goroutines stay in Connections
\* when an attempt is cancelled.
C34_DisconnectFrame ==
    /\ [](\A t \in TaskIds :
             Task(t).cancelled =>
                 ~Task(t).session /\ Task(t).pc \notin {"release", "quit"})
    /\ [][proc' = "running" =>
            /\ \A t \in TaskIds :
                  /\ (tasks[t].pc = "unpend_c" /\ tasks'[t].pc # "unpend_c") =>
                         /\ tasks'[t].cancelled
                         /\ Connections' = Connections
                         /\ \A u \in TaskIds :
                                tasks'[u].session = tasks[u].session
                         /\ caller'.session = caller.session
                  /\ (tasks[t].pc = "release" /\ tasks'[t].pc # "release") =>
                         /\ ~tasks[t].cancelled
                         /\ Len(Connections') = Len(Connections) - 1
            /\ (caller.pc = "gf_release" /\ caller'.pc # "gf_release") =>
                   Len(Connections') = Len(Connections) - 1]_vars

C34_Witness ==
    \E t, u \in TaskIds :
        /\ Task(t).cancelled
        /\ Task(t).pc = "loop"
        /\ Task(u).session
        /\ Len(Connections) = maxConnections


\* ---------------------------------------------------------------------
\* C35: a request whose acquisition was cancelled is thrown out before any
\* call on the session: a search goroutine whose ftpList was cancelled has no
\* session, no error and an empty list, and a GetFile call with cancelable
\* = true that was cancelled makes no call on its nil session (the process
\* does not end in a nil pointer dereference) and returns no data and no
\* error.
C35_CancelledThrownOut ==
    /\ \A t \in TaskIds :
          Task(t).cancelled =>
              ~Task(t).session /\ Task(t).err = "" /\ ListOf(t) = <<>>
    /\ proc # "panic: nil pointer dereference"
    /\ (direct.cancelled /\ direct.pc \in {"returned", "dead"}) =>
           direct.ret = NoRet


\* ---------------------------------------------------------------------
\* the directories of the server whose listing succeeds and has no entries
EmptyListed == {t \in Dirs : Tree[t] = <<>> /\ t \notin listFails}

\* C36: a goroutine whose directory exists and lists no entries reports no
\* error and finds no match (it never gets to sigError, to the sweep, to the
\* close of haltSearch or to result); after its listing its one step is the
\* Done at the end of the range, which lowers the counter by one and leaves
\* haltSearch, PendingConnections, Connections, every other goroutine (none
\* is started) and the caller as they are; after that it does nothing more
\* in that call.
C36_EmptyListingQuiet ==
    /\ [](\A t \in EmptyListed :
             /\ Task(t).err = ""
             /\ Task(t).pending = 0
             /\ Task(t).pc \notin {"err_done", "send_err", "parked_err", "sweep",
                                   "match_done", "send_result",
                                   "parked_result", "delivered"})
    /\ [][\A t \in EmptyListed :
            /\ (tasks[t].pc = "loop" /\ tasks'[t] # tasks[t]
                  /\ proc' = "running") =>
                   /\ tasks'[t].pc = "done"
                   /\ wg' = wg - 1
                   /\ \A u \in TaskIds \ {t} : tasks'[u] = tasks[u]
                   /\ UNCHANGED <<haltSearch, PendingConnections, Connections,
                                  attemptedConn, caller>>
            /\ (tasks[t].pc = "done" /\ tasks'[t] # tasks[t]) =>
                   (calls' # calls \/ proc' # "running")]_vars

C36_Witness ==
    /\ <<"b">> \in EmptyListed
    /\ Task(<<"b">>).pc = "done"
    /\ ~Task(<<"b">>).cancelled
    /\ ~haltSearch
    /\ wg > 0


\* ---------------------------------------------------------------------
\* the goroutine is past line 237
Normalized(t) == Task(t).pc \notin {"none", "check"}

\* C37: past its first line a search goroutine's path is absolute; the
\* root goroutine's path is "/" joined with the path given to GetMeta ("/"
\* itself when that path is empty); the path of the goroutine started for a
\* folder is its parent's path joined with the folder's name; and the Path
\* of the entry GetMeta returns is absolute and is the path of the goroutine
\* that delivered it, a directory whose listing holds an entry of that name
\* (while the process runs: its end takes the goroutines away).
C37_PathsAbsolute ==
    /\ \A t \in TaskIds :
          Normalized(t) =>
              /\ Task(t).path.abs
              /\ t = SearchRoot =>
                     /\ Task(t).path = JoinPath(RootPath, argPath)
                     /\ argPath = EmptyPath => Task(t).path = RootPath
              /\ t # SearchRoot =>
                     LET parent == SubSeq(t, 1, Len(t) - 1)
                     IN  /\ Normalized(parent)
                         /\ Task(t).path =
                                JoinPath(Task(parent).path,
                                         MkPath(FALSE, <<t[Len(t)]>>))
                         /\ \E i \in 1..Len(ListOf(parent)) :
                                ListOf(parent)[i] = Folder(t[Len(t)])
    /\ (Running /\ caller.meta.kind = "entry") =>
          /\ caller.meta.Path.abs
          /\ \E t \in TaskIds :
                /\ Task(t).pc = "delivered"
                /\ caller.meta.Path = Task(t).path
                /\ \E i \in 1..Len(ListOf(t)) :
                       ListOf(t)[i].Name = caller.meta.Name

C37_Witness ==
    /\ argPath = EmptyPath
    /\ caller.meta.kind = "entry"
    /\ caller.meta.Path = MkPath(TRUE, <<"a", "c">>)
    /\ Task(<<>>).path = RootPath


====
